---- MODULE Spec2Model ----
(***************************************************************************)
(* The mock streaming server (mock_services/mock_stream_server.py): one    *)
(* shared variable current_condition, one lock state_lock, and a pool of    *)
(* request threads (app.run(threaded=True)) each running one Flask handler  *)
(* at a time.  A thread's position in its handler is pc[t]; the steps are   *)
(* the points where a handler touches state_lock or current_condition, or   *)
(* blocks in time.sleep.                                                    *)
(*                                                                          *)
(* Units: packet_loss and the value of random.random() are in hundredths    *)
(* (0.15 is 15, a draw is 0..99); latencies, jitter and delays are in ms.   *)
(***************************************************************************)
EXTENDS Integers, Sequences, FiniteSets, TLC

\* Number of request threads serving requests concurrently.
NumThreads == 2

\* Largest segment number a client asks for.
MaxSegmentNum == 6

\* get_segment accepts segment_num in MinSegment..MaxSegment.
MinSegment == 1
MaxSegment == 5

Threads == 1..NumThreads

\* state_lock is free.
Unlocked == 0

ConditionTable_WithOffline ==
    [normal   |-> [packet_loss |-> 0,  latency_ms |-> 10,  jitter_ms |-> 5,
                   description |-> "Normal network (stable connection)"],
     poor     |-> [packet_loss |-> 15, latency_ms |-> 200, jitter_ms |-> 50,
                   description |-> "Poor network (mobile 3G-like)"],
     terrible |-> [packet_loss |-> 15, latency_ms |-> 500, jitter_ms |-> 150,
                   description |-> "Terrible network (congested/unstable)"],
     offline  |-> [packet_loss |-> 100, latency_ms |-> 0, jitter_ms |-> 0,
                   description |-> "Offline"]]

\* The initial value of the dict NETWORK_CONDITIONS; packet_loss in hundredths.
ConditionTable ==
    [normal   |-> [packet_loss |-> 0,  latency_ms |-> 10,  jitter_ms |-> 5,
                   description |-> "Normal network (stable connection)"],
     poor     |-> [packet_loss |-> 15, latency_ms |-> 200, jitter_ms |-> 50,
                   description |-> "Poor network (mobile 3G-like)"],
     terrible |-> [packet_loss |-> 15, latency_ms |-> 500, jitter_ms |-> 150,
                   description |-> "Terrible network (congested/unstable)"]]

\* list(NETWORK_CONDITIONS.keys()): the keys in insertion order.
ConditionKeys == <<"normal", "poor", "terrible">>

\* No settings dict (the local is unset).
NoSettings ==
    [packet_loss |-> 0, latency_ms |-> 0, jitter_ms |-> 0, description |-> ""]

\* Names a client puts in PUT /control/network/<condition>: the three keys,
\* "offline" (tests/test_stream_quality.py) and "current" (the PUT of the
\* path whose GET is get_current_condition).
ConditionNames == {"normal", "poor", "terrible", "offline", "current"}

\* Segment numbers a client asks for: the int converter of the route passes
\* unsigned integers only.
SegmentNums ==
    {MinSegment - 1, MinSegment, MaxSegment} \cup ((MaxSegment + 1)..MaxSegmentNum)

\* Values of random.random(), in hundredths.
RandomDraws == {0, 14, 15, 99}

\* random.random(): the uniform draw in [0, 1) in hundredths, every value
\* equally likely.
UniformDraws == 0..99

Endpoints ==
    {"root", "manifest", "segment", "health", "metrics",
     "control_set", "control_get", "unmatched"}

Requests ==
    {[endpoint |-> e, condition |-> "", segment_num |-> 0] :
        e \in {"root", "manifest", "health", "metrics", "control_get", "unmatched"}}
    \cup {[endpoint |-> "segment", condition |-> "", segment_num |-> n] :
            n \in SegmentNums}
    \cup {[endpoint |-> "control_set", condition |-> c, segment_num |-> 0] :
            c \in ConditionNames}

NoRequest == [endpoint |-> "", condition |-> "", segment_num |-> 0]

NoResponse ==
    [status |-> 0, message |-> "", name |-> "", settings |-> NoSettings,
     valid_conditions |-> <<>>]

\* Locals of the running handler: condition and delay of
\* apply_network_effects, settings / condition_settings of the handlers,
\* raised when a KeyError is propagating.
NoLocals ==
    [condition |-> NoSettings, delay |-> -1, name |-> "",
     settings |-> NoSettings, raised |-> FALSE]

\* What the running request has done so far (history, not program state).
NoTrace ==
    [acquired |-> 0, snapshots |-> 0, snapshot |-> "", drew |-> FALSE,
     lost |-> FALSE, slept |-> FALSE, raced |-> FALSE]

\* History of a control-get-current request: the name last committed when it
\* began (start) and when it read (expect), whether the control-set that
\* committed that name had responded when it began (fresh), and whether a
\* control-set committed between its beginning and its read (intervened).
NoObs == [start |-> "", expect |-> "", fresh |-> FALSE, intervened |-> FALSE]

VARIABLES
    NETWORK_CONDITIONS, \* the module-level dict of condition settings
    current_condition,  \* the module-level global
    state_lock,         \* Unlocked, or the thread holding the lock
    pc,                 \* pc[t]: position of thread t in its handler
    req,                \* req[t]: the request thread t is serving
    loc,                \* loc[t]: locals of the handler
    resp,               \* resp[t]: the response of the finished request
    trace,              \* trace[t]: history of the request in flight
    obs,                \* obs[t]: history for control-get-current
    hist                \* history of the control-set commits

vars ==
    <<NETWORK_CONDITIONS, current_condition, state_lock, pc, req, loc, resp,
      trace, obs, hist>>

----------------------------------------------------------------------------
(* Pure parts of the handlers *)

IsValidCondition_Any(condition) == TRUE

IsValidCondition_NonEmpty(condition) == condition # ""

IsValidCondition_OfflineOk(condition) ==
    condition \in DOMAIN NETWORK_CONDITIONS \cup {"offline"}

\* set_network_condition: condition in NETWORK_CONDITIONS
IsValidCondition(condition) == condition \in DOMAIN NETWORK_CONDITIONS

IsValidSegment_OffByOne(segment_num) ==
    ~(segment_num < MinSegment - 1 \/ segment_num > MaxSegment)

\* get_segment: not (segment_num < 1 or segment_num > 5)
IsValidSegment(segment_num) ==
    ~(segment_num < MinSegment \/ segment_num > MaxSegment)

\* NETWORK_CONDITIONS[name]; a missing key raises KeyError.
KeyError(name) == name \notin DOMAIN NETWORK_CONDITIONS

Lookup(name) == IF KeyError(name) THEN NoSettings ELSE NETWORK_CONDITIONS[name]

PacketLost_Inclusive(draw, condition) == draw <= condition.packet_loss

PacketLost_Inverted(draw, condition) == draw >= condition.packet_loss

\* apply_network_effects: random.random() < condition["packet_loss"]
PacketLost(draw, condition) == draw < condition.packet_loss

LossStatus_Always503(endpoint_type) == 503

\* apply_network_effects: the status of a simulated packet loss
LossStatus(endpoint_type) == IF endpoint_type = "manifest" THEN 504 ELSE 503

LossMessage(endpoint_type) ==
    IF endpoint_type = "manifest" THEN "Gateway Timeout" ELSE "Service Unavailable"

\* random.uniform(-jitter, jitter): the two ends and the middle.
JitterDraws(condition) == {0 - condition.jitter_ms, 0, condition.jitter_ms}

Max(a, b) == IF a >= b THEN a ELSE b

Delay_Zero(condition, u) == 0

Delay_DoubleJitter(condition, u) == Max(0, condition.latency_ms + 2 * u)

\* apply_network_effects: delay = max(0, base_latency + uniform(-jitter, jitter))
Delay(condition, u) == Max(0, condition.latency_ms + u)

\* The endpoint_type each handler passes to apply_network_effects.
EndpointType(endpoint) == endpoint

AppliesEffects_All(endpoint) == TRUE

\* Which handlers call apply_network_effects.
AppliesEffects(endpoint) ==
    endpoint \in {"manifest", "segment", "health", "metrics"}

\* First step of a handler's body, after validation and impairment.
Body(endpoint) ==
    CASE endpoint = "root"        -> "root_doc"
      [] endpoint = "manifest"    -> "manifest_ok"
      [] endpoint = "segment"     -> "segment_ok"
      [] endpoint = "health"      -> "health_data"
      [] endpoint = "metrics"     -> "metrics_lock"
      [] endpoint = "control_set" -> "set_lock"
      [] endpoint = "control_get" -> "cur_lock"
      [] OTHER                    -> "not_found"

\* Where a handler goes once its input is accepted.
AfterValidate(endpoint) ==
    IF AppliesEffects(endpoint) THEN "ane_lock" ELSE Body(endpoint)

\* First step of the handler the route dispatches to.
Entry(endpoint) ==
    CASE endpoint = "segment"     -> "seg_validate"
      [] endpoint = "control_set" -> "set_validate"
      [] endpoint = "unmatched"   -> "not_found"
      [] OTHER                    -> AfterValidate(endpoint)

CanAcquire_NoExclusion(lock) == TRUE

CanAcquire_Never(lock) == FALSE

\* Lock.acquire() returns once the lock is free.
CanAcquire(lock) == lock = Unlocked

Release_Held(lock) == lock

\* Lock.release() at the end of a with block.
Release(lock) == Unlocked

SetUpdate_NoWrite(condition) ==
    [current |-> current_condition, settings |-> Lookup(condition),
     raised |-> KeyError(condition)]

\* set_network_condition: current_condition = condition;
\* settings = NETWORK_CONDITIONS[condition].copy()
SetUpdate(condition) ==
    [current |-> condition, settings |-> Lookup(condition),
     raised |-> KeyError(condition)]

CurrentRead_DefaultSettings ==
    [condition |-> current_condition, settings |-> Lookup("normal"),
     raised |-> KeyError(current_condition)]

CurrentRead_Default ==
    [condition |-> "normal", settings |-> Lookup("normal"),
     raised |-> KeyError("normal")]

\* get_current_condition: condition = current_condition;
\* settings = NETWORK_CONDITIONS[condition].copy()
CurrentRead ==
    [condition |-> current_condition, settings |-> Lookup(current_condition),
     raised |-> KeyError(current_condition)]

SnapshotOf_Global(t) == Lookup(current_condition)

\* apply_network_effects: the local `condition` that the packet-loss check
\* and the delay read.
SnapshotOf(t) == loc[t].condition

\* The steps that read the global current_condition.
ReadsCurrentCondition(label) ==
    label \in {"ane_snapshot", "root_doc", "health_data", "metrics_settings",
               "metrics_data", "cur_read"}

\* The step that assigns the global current_condition.
WritesCurrentCondition(label) == label = "set_update"

\* internal_error: the response to an exception that leaves a handler.
InternalError ==
    [NoResponse EXCEPT !.status = 500, !.message = "Internal server error"]

----------------------------------------------------------------------------
(* The validating collaborator (infra/streaming_validator.py) and its tests *)

\* test_stream_quality.py: statuses = ["normal", "poor", "offline"]
statuses == {"normal", "poor", "offline"}

\* Python's None, as the expected latency of a status without one.
None == -1

\* get_latency_expected: mapping.get(status)
get_latency_expected(status) ==
    CASE status = "normal" -> 50
      [] status = "poor"   -> 200
      [] OTHER             -> None

\* StreamingValidator.set_network_condition: resp.status_code in (200, 204),
\* otherwise HTTPError.
SetSucceeded(status_code) == status_code \in {200, 204}

\* health_check: the keys of health_data (the value under
\* "network_condition" is the name field of the response).
HealthKeys ==
    {"status", "bitrate", "viewers", "uptime_seconds", "network_condition",
     "timestamp"}

\* validate_streaming_performance(status) on the response r of GET /health:
\* fetch_health_status raises unless the status code is 200, then
\* metric_value["current_condition"] == status and
\* metric_value["settings"]["latency_ms"] == get_latency_expected(status).
validate_streaming_performance(r, status) ==
    /\ r.status = 200
    /\ "current_condition" \in HealthKeys
    /\ "settings" \in HealthKeys
    /\ r.name = status
    /\ r.settings.latency_ms = get_latency_expected(status)

----------------------------------------------------------------------------
(* State *)

InitialCondition_Poor == "poor"

\* current_condition = "normal" at import.
InitialCondition == "normal"

Init ==
    /\ NETWORK_CONDITIONS = ConditionTable
    /\ current_condition = InitialCondition
    /\ state_lock = Unlocked
    /\ pc = [t \in Threads |-> "idle"]
    /\ req = [t \in Threads |-> NoRequest]
    /\ loc = [t \in Threads |-> NoLocals]
    /\ resp = [t \in Threads |-> NoResponse]
    /\ trace = [t \in Threads |-> NoTrace]
    /\ obs = [t \in Threads |-> NoObs]
    /\ hist = [entered |-> "", committed |-> "", by |-> 0, completed |-> FALSE]

\* Thread t finishes its request with response r.
Respond(t, r) ==
    /\ pc' = [pc EXCEPT ![t] = "done"]
    /\ resp' = [resp EXCEPT ![t] = r]

Goto(t, label) ==
    /\ pc' = [pc EXCEPT ![t] = label]
    /\ UNCHANGED resp

\* Thread u is serving a control-set request that passed validation.
SetInFlight(u) == pc[u] \in {"set_lock", "set_update", "set_unlock"}

\* Thread u is serving a control-get-current request that has not read yet.
GetBeforeRead(u) == pc[u] \in {"cur_lock", "cur_read"}

\* The name the last committed control-set asked for (the start-up value
\* before any).
LastCommitted == IF hist.committed = "" THEN "normal" ELSE hist.committed

----------------------------------------------------------------------------
(* The server takes a request: the route's handler starts on thread t. *)

\* The handler of request r starts on thread t.
Begin(t, r) ==
    /\ req' = [req EXCEPT ![t] = r]
    /\ pc' = [pc EXCEPT ![t] = Entry(r.endpoint)]
    /\ obs' = [obs EXCEPT ![t] =
                 IF r.endpoint = "control_get"
                 THEN [start |-> LastCommitted, expect |-> LastCommitted,
                       fresh |-> hist.completed, intervened |-> FALSE]
                 ELSE NoObs]
    /\ loc' = [loc EXCEPT ![t] = NoLocals]
    /\ resp' = [resp EXCEPT ![t] = NoResponse]
    /\ trace' = [trace EXCEPT ![t] = NoTrace]
    /\ UNCHANGED <<NETWORK_CONDITIONS, current_condition, state_lock, hist>>

Start(t) ==
    /\ pc[t] \in {"idle", "done"}
    /\ \E r \in Requests : Begin(t, r)

\* not_found: the 404 error handler.
NotFound(t) ==
    /\ pc[t] = "not_found"
    /\ Respond(t, [NoResponse EXCEPT !.status = 404,
                                     !.message = "Endpoint not found"])
    /\ UNCHANGED <<NETWORK_CONDITIONS, current_condition, state_lock, req,
                   loc, trace, obs, hist>>

\* root: builds the documentation, reading current_condition.
RootDoc(t) ==
    /\ pc[t] = "root_doc"
    /\ Respond(t, [NoResponse EXCEPT !.status = 200,
                                     !.name = current_condition,
                                     !.valid_conditions = ConditionKeys])
    /\ UNCHANGED <<NETWORK_CONDITIONS, current_condition, state_lock, req,
                   loc, trace, obs, hist>>

----------------------------------------------------------------------------
(* apply_network_effects *)

\* with state_lock: (enter)
AneLock(t) ==
    /\ pc[t] = "ane_lock"
    /\ CanAcquire(state_lock)
    /\ state_lock' = t
    /\ trace' = [trace EXCEPT ![t].acquired = @ + 1]
    /\ Goto(t, "ane_snapshot")
    /\ UNCHANGED <<NETWORK_CONDITIONS, current_condition, req, loc, obs,
                   hist>>

\* condition = NETWORK_CONDITIONS[current_condition]
AneSnapshot(t) ==
    /\ pc[t] = "ane_snapshot"
    /\ loc' = [loc EXCEPT ![t].condition = Lookup(current_condition),
                          ![t].raised = KeyError(current_condition)]
    /\ trace' = [trace EXCEPT ![t].snapshots = @ + 1,
                              ![t].snapshot = current_condition]
    /\ Goto(t, "ane_unlock")
    /\ UNCHANGED <<NETWORK_CONDITIONS, current_condition, state_lock, req,
                   obs, hist>>

\* with state_lock: (exit)
AneUnlock(t) ==
    /\ pc[t] = "ane_unlock"
    /\ state_lock' = Release(state_lock)
    /\ IF loc[t].raised
       THEN Respond(t, InternalError)
       ELSE Goto(t, "ane_loss")
    /\ UNCHANGED <<NETWORK_CONDITIONS, current_condition, req, loc, trace,
                   obs, hist>>

\* The packet-loss draw; on a pass, the delay and the start of time.sleep.
AneLoss(t) ==
    /\ pc[t] = "ane_loss"
    /\ \E draw \in RandomDraws :
        IF PacketLost(draw, SnapshotOf(t))
        THEN /\ Respond(t, [NoResponse EXCEPT
                    !.status = LossStatus(EndpointType(req[t].endpoint)),
                    !.message = LossMessage(EndpointType(req[t].endpoint))])
             /\ trace' = [trace EXCEPT ![t].drew = TRUE, ![t].lost = TRUE]
             /\ loc' = [loc EXCEPT ![t] = NoLocals]
        ELSE \E u \in JitterDraws(SnapshotOf(t)) :
             LET delay == Delay(SnapshotOf(t), u) IN
             IF delay > 0
             THEN /\ Goto(t, "ane_sleep")
                  /\ trace' = [trace EXCEPT ![t].drew = TRUE, ![t].slept = TRUE]
                  /\ loc' = [loc EXCEPT ![t].delay = delay]
             ELSE /\ Goto(t, Body(req[t].endpoint))
                  /\ trace' = [trace EXCEPT ![t].drew = TRUE]
                  /\ loc' = [loc EXCEPT ![t] = NoLocals]
    /\ UNCHANGED <<NETWORK_CONDITIONS, current_condition, state_lock, req,
                   obs, hist>>

\* time.sleep(delay) returns; apply_network_effects returns None.
AneSleep(t) ==
    /\ pc[t] = "ane_sleep"
    /\ Goto(t, Body(req[t].endpoint))
    /\ loc' = [loc EXCEPT ![t] = NoLocals]
    /\ UNCHANGED <<NETWORK_CONDITIONS, current_condition, state_lock, req,
                   trace, obs, hist>>

----------------------------------------------------------------------------
(* The streaming and monitoring handlers *)

\* get_manifest: the playlist.
ManifestOk(t) ==
    /\ pc[t] = "manifest_ok"
    /\ Respond(t, [NoResponse EXCEPT !.status = 200, !.message = "#EXTM3U"])
    /\ UNCHANGED <<NETWORK_CONDITIONS, current_condition, state_lock, req,
                   loc, trace, obs, hist>>

\* get_segment: the check of segment_num.
SegValidate(t) ==
    /\ pc[t] = "seg_validate"
    /\ IF IsValidSegment(req[t].segment_num)
       THEN Goto(t, AfterValidate("segment"))
       ELSE Respond(t, [NoResponse EXCEPT
                !.status = 400,
                !.message = "Invalid segment number. Must be 1-5."])
    /\ UNCHANGED <<NETWORK_CONDITIONS, current_condition, state_lock, req,
                   loc, trace, obs, hist>>

\* get_segment: the fake video data.
SegmentOk(t) ==
    /\ pc[t] = "segment_ok"
    /\ Respond(t, [NoResponse EXCEPT !.status = 200,
                                     !.message = "FAKE_VIDEO_DATA_SEGMENT_"])
    /\ UNCHANGED <<NETWORK_CONDITIONS, current_condition, state_lock, req,
                   loc, trace, obs, hist>>

\* health_check: health_data, reading current_condition.
HealthData(t) ==
    /\ pc[t] = "health_data"
    /\ Respond(t, [NoResponse EXCEPT !.status = 200,
                                     !.message = "streaming",
                                     !.name = current_condition])
    /\ UNCHANGED <<NETWORK_CONDITIONS, current_condition, state_lock, req,
                   loc, trace, obs, hist>>

\* get_metrics: with state_lock: (enter)
MetricsLock(t) ==
    /\ pc[t] = "metrics_lock"
    /\ CanAcquire(state_lock)
    /\ state_lock' = t
    /\ trace' = [trace EXCEPT ![t].acquired = @ + 1]
    /\ Goto(t, "metrics_settings")
    /\ UNCHANGED <<NETWORK_CONDITIONS, current_condition, req, loc, obs,
                   hist>>

\* condition_settings = NETWORK_CONDITIONS[current_condition].copy()
MetricsSettings(t) ==
    /\ pc[t] = "metrics_settings"
    /\ loc' = [loc EXCEPT ![t].settings = Lookup(current_condition),
                          ![t].raised = KeyError(current_condition)]
    /\ Goto(t, "metrics_unlock")
    /\ UNCHANGED <<NETWORK_CONDITIONS, current_condition, state_lock, req,
                   trace, obs, hist>>

\* with state_lock: (exit)
MetricsUnlock(t) ==
    /\ pc[t] = "metrics_unlock"
    /\ state_lock' = Release(state_lock)
    /\ IF loc[t].raised
       THEN Respond(t, InternalError)
       ELSE Goto(t, "metrics_data")
    /\ UNCHANGED <<NETWORK_CONDITIONS, current_condition, req, loc, trace,
                   obs, hist>>

\* metrics_data, reading current_condition for network.current_condition.
MetricsData(t) ==
    /\ pc[t] = "metrics_data"
    /\ Respond(t, [NoResponse EXCEPT !.status = 200,
                                     !.name = current_condition,
                                     !.settings = loc[t].settings])
    /\ UNCHANGED <<NETWORK_CONDITIONS, current_condition, state_lock, req,
                   loc, trace, obs, hist>>

----------------------------------------------------------------------------
(* The control handlers *)

\* set_network_condition: the check of the name.
SetValidate(t) ==
    /\ pc[t] = "set_validate"
    /\ IF IsValidCondition(req[t].condition)
       THEN Goto(t, AfterValidate("control_set"))
       ELSE Respond(t, [NoResponse EXCEPT
                !.status = 400,
                !.message = "Invalid network condition",
                !.valid_conditions = ConditionKeys])
    /\ UNCHANGED <<NETWORK_CONDITIONS, current_condition, state_lock, req,
                   loc, trace, obs, hist>>

\* with state_lock: (enter)
SetLock(t) ==
    /\ pc[t] = "set_lock"
    /\ CanAcquire(state_lock)
    /\ state_lock' = t
    /\ trace' = [trace EXCEPT ![t].acquired = @ + 1]
    /\ hist' = [hist EXCEPT !.entered = req[t].condition]
    /\ Goto(t, "set_update")
    /\ UNCHANGED <<NETWORK_CONDITIONS, current_condition, req, loc, obs>>

\* current_condition = condition; settings = NETWORK_CONDITIONS[condition].copy()
SetCommit(t) ==
    /\ pc[t] = "set_update"
    /\ LET u == SetUpdate(req[t].condition) IN
        /\ current_condition' = u.current
        /\ loc' = [loc EXCEPT ![t].settings = u.settings, ![t].raised = u.raised]
    /\ hist' = [hist EXCEPT !.committed = req[t].condition, !.by = t,
                            !.completed = FALSE]
    /\ obs' = [u \in Threads |->
                 IF GetBeforeRead(u)
                 THEN [obs[u] EXCEPT !.expect = req[t].condition,
                                     !.intervened = TRUE]
                 ELSE obs[u]]
    /\ trace' = [u \in Threads |->
                   IF u = t
                   THEN [trace[u] EXCEPT
                            !.raced = @ \/ \E v \in Threads \ {t} : SetInFlight(v)]
                   ELSE IF SetInFlight(u)
                        THEN [trace[u] EXCEPT !.raced = TRUE]
                        ELSE trace[u]]
    /\ Goto(t, "set_unlock")
    /\ UNCHANGED <<NETWORK_CONDITIONS, state_lock, req>>

\* with state_lock: (exit), and the response
SetUnlock(t) ==
    /\ pc[t] = "set_unlock"
    /\ state_lock' = Release(state_lock)
    /\ IF loc[t].raised
       THEN /\ Respond(t, InternalError)
            /\ UNCHANGED hist
       ELSE /\ Respond(t, [NoResponse EXCEPT !.status = 200,
                                             !.name = req[t].condition,
                                             !.settings = loc[t].settings])
            /\ hist' = [hist EXCEPT !.completed = @ \/ (hist.by = t)]
    /\ UNCHANGED <<NETWORK_CONDITIONS, current_condition, req, loc, trace,
                   obs>>

\* get_current_condition: with state_lock: (enter)
CurLock(t) ==
    /\ pc[t] = "cur_lock"
    /\ CanAcquire(state_lock)
    /\ state_lock' = t
    /\ trace' = [trace EXCEPT ![t].acquired = @ + 1]
    /\ Goto(t, "cur_read")
    /\ UNCHANGED <<NETWORK_CONDITIONS, current_condition, req, loc, obs,
                   hist>>

\* condition = current_condition; settings = NETWORK_CONDITIONS[condition].copy()
CurRead(t) ==
    /\ pc[t] = "cur_read"
    /\ LET r == CurrentRead IN
        loc' = [loc EXCEPT ![t].name = r.condition, ![t].settings = r.settings,
                           ![t].raised = r.raised]
    /\ Goto(t, "cur_unlock")
    /\ UNCHANGED <<NETWORK_CONDITIONS, current_condition, state_lock, req,
                   trace, obs, hist>>

\* with state_lock: (exit), and the response
CurUnlock(t) ==
    /\ pc[t] = "cur_unlock"
    /\ state_lock' = Release(state_lock)
    /\ IF loc[t].raised
       THEN Respond(t, InternalError)
       ELSE Respond(t, [NoResponse EXCEPT !.status = 200,
                                         !.name = loc[t].name,
                                         !.settings = loc[t].settings])
    /\ UNCHANGED <<NETWORK_CONDITIONS, current_condition, req, loc, trace,
                   obs, hist>>

----------------------------------------------------------------------------

Next ==
    \E t \in Threads :
        \/ Start(t)
        \/ NotFound(t)
        \/ RootDoc(t)
        \/ AneLock(t)
        \/ AneSnapshot(t)
        \/ AneUnlock(t)
        \/ AneLoss(t)
        \/ AneSleep(t)
        \/ ManifestOk(t)
        \/ SegValidate(t)
        \/ SegmentOk(t)
        \/ HealthData(t)
        \/ MetricsLock(t)
        \/ MetricsSettings(t)
        \/ MetricsUnlock(t)
        \/ MetricsData(t)
        \/ SetValidate(t)
        \/ SetLock(t)
        \/ SetCommit(t)
        \/ SetUnlock(t)
        \/ CurLock(t)
        \/ CurRead(t)
        \/ CurUnlock(t)

Spec == Init /\ [][Next]_vars

----------------------------------------------------------------------------
(* Fair scheduling of the request threads: a thread that can take a step   *)
(* of its handler eventually takes it, and a thread waiting for state_lock *)
(* eventually gets it if the lock keeps becoming free. Nothing obliges a   *)
(* client to send another request.                                         *)

\* Thread t enters one of the "with state_lock:" blocks.
Acquire(t) ==
    \/ AneLock(t)
    \/ MetricsLock(t)
    \/ SetLock(t)
    \/ CurLock(t)

\* Thread t takes a step of its handler that does not wait for the lock.
Serve(t) ==
    \/ NotFound(t)
    \/ RootDoc(t)
    \/ AneSnapshot(t)
    \/ AneUnlock(t)
    \/ AneLoss(t)
    \/ AneSleep(t)
    \/ ManifestOk(t)
    \/ SegValidate(t)
    \/ SegmentOk(t)
    \/ HealthData(t)
    \/ MetricsSettings(t)
    \/ MetricsUnlock(t)
    \/ MetricsData(t)
    \/ SetValidate(t)
    \/ SetCommit(t)
    \/ SetUnlock(t)
    \/ CurRead(t)
    \/ CurUnlock(t)

FairSpec ==
    /\ Spec
    /\ \A t \in Threads : WF_vars(Serve(t)) /\ SF_vars(Acquire(t))

----------------------------------------------------------------------------
(* test_stream_quality_degrades_on_poor_condition run against a fresh       *)
(* server: the test's requests are served one after the other on the       *)
(* thread TestClient; the other threads serve requests of other clients,    *)
(* none of which sets the condition.                                        *)

TestClient == 1

Request(endpoint, condition) ==
    [endpoint |-> endpoint, condition |-> condition, segment_num |-> 0]

\* The next request of the test, sent once the previous call has returned
\* without raising.
TestStart(t) ==
    IF t = TestClient
    THEN \* validate_streaming_status("normal"): GET /control/network/current
         \/ /\ pc[t] = "idle"
            /\ Begin(t, Request("control_get", ""))
         \* set_network_condition("poor"), after the assert of the first call
         \/ /\ pc[t] = "done" /\ req[t].endpoint = "control_get"
            /\ resp[t].status = 200 /\ resp[t].name = "normal"
            /\ Begin(t, Request("control_set", "poor"))
         \* validate_streaming_performance("poor"): GET /health
         \/ /\ pc[t] = "done" /\ req[t].endpoint = "control_set"
            /\ SetSucceeded(resp[t].status)
            /\ Begin(t, Request("health", ""))
    ELSE /\ pc[t] \in {"idle", "done"}
         /\ \E r \in Requests : r.endpoint # "control_set" /\ Begin(t, r)

TestNext ==
    \E t \in Threads :
        \/ TestStart(t)
        \/ NotFound(t)
        \/ RootDoc(t)
        \/ AneLock(t)
        \/ AneSnapshot(t)
        \/ AneUnlock(t)
        \/ AneLoss(t)
        \/ AneSleep(t)
        \/ ManifestOk(t)
        \/ SegValidate(t)
        \/ SegmentOk(t)
        \/ HealthData(t)
        \/ MetricsLock(t)
        \/ MetricsSettings(t)
        \/ MetricsUnlock(t)
        \/ MetricsData(t)
        \/ SetValidate(t)
        \/ SetLock(t)
        \/ SetCommit(t)
        \/ SetUnlock(t)
        \/ CurLock(t)
        \/ CurRead(t)
        \/ CurUnlock(t)

TestSpec == Init /\ [][TestNext]_vars

----------------------------------------------------------------------------
(* Properties *)

Done(t) == pc[t] = "done"

ControlEndpoints == {"root", "control_set", "control_get"}

\* C1: in every reachable state current_condition is one of the three keys
\* of NETWORK_CONDITIONS, so no lookup of NETWORK_CONDITIONS[current_condition]
\* raises KeyError and no request ends in the 500 handler.
CurrentConditionIsKey_C1 ==
    /\ current_condition \in {"normal", "poor", "terrible"}
    /\ \A t \in Threads : ~loc[t].raised /\ resp[t].status # 500

\* C1 witness: an unknown name was rejected, the condition is no longer the
\* default, and another request has looked the current condition up.
Witness_C1 ==
    \E t, u \in Threads :
        /\ Done(t) /\ req[t].endpoint = "control_set"
        /\ req[t].condition = "offline" /\ resp[t].status = 400
        /\ current_condition = "terrible"
        /\ pc[u] = "ane_unlock"
        /\ loc[u].condition = NETWORK_CONDITIONS["terrible"]

\* C2: every step of every handler that reads or writes current_condition
\* is taken by the thread holding state_lock.
AccessUnderLock_C2 ==
    \A t \in Threads :
        (ReadsCurrentCondition(pc[t]) \/ WritesCurrentCondition(pc[t]))
            => state_lock = t

\* C3: a control-set with a valid name answers 200 with applied = name and
\* the table entry of name; a control-get-current that begins after it has
\* answered, with no control-set committing in between, answers 200 with
\* that name and the same settings.
SetThenGet_C3 ==
    \A t \in Threads :
        Done(t) =>
            /\ (/\ req[t].endpoint = "control_set"
                /\ req[t].condition \in {"normal", "poor", "terrible"})
                => /\ resp[t].status = 200
                   /\ resp[t].name = req[t].condition
                   /\ resp[t].settings = NETWORK_CONDITIONS[req[t].condition]
            /\ (/\ req[t].endpoint = "control_get"
                /\ obs[t].fresh
                /\ ~obs[t].intervened)
                => /\ resp[t].status = 200
                   /\ resp[t].name = obs[t].start
                   /\ resp[t].settings = NETWORK_CONDITIONS[obs[t].start]

\* C3 witness: PUT poor has answered, then GET current echoes poor.
Witness_C3 ==
    \E t, u \in Threads :
        /\ Done(u) /\ req[u].endpoint = "control_set"
        /\ req[u].condition = "poor" /\ resp[u].status = 200
        /\ resp[u].settings.latency_ms = 200
        /\ Done(t) /\ req[t].endpoint = "control_get"
        /\ obs[t].fresh /\ ~obs[t].intervened /\ obs[t].start = "poor"
        /\ resp[t].name = "poor" /\ resp[t].settings = resp[u].settings

\* C4: no step of a control-set request whose name is not a key changes
\* current_condition or counts as a commit, and the request ends with 400
\* and the list of the valid conditions.
InvalidSetRejected_C4 ==
    [][\A t \in Threads :
          (/\ req[t].endpoint = "control_set"
           /\ req[t].condition \notin {"normal", "poor", "terrible"}
           /\ pc[t] # "done"
           /\ pc'[t] # pc[t])
          => /\ current_condition' = current_condition
             /\ hist' = hist
             /\ pc'[t] = "done"
             /\ resp'[t].status = 400
             /\ resp'[t].valid_conditions = <<"normal", "poor", "terrible">>]_vars

\* C4 witness: an unknown name was rejected while the condition is poor.
Witness_C4 ==
    \E t \in Threads :
        /\ Done(t) /\ req[t].endpoint = "control_set"
        /\ req[t].condition = "current" /\ resp[t].status = 400
        /\ resp[t].valid_conditions = ConditionKeys
        /\ current_condition = "poor" /\ hist.committed = "poor"

\* C5: whenever no control-set is between entering the critical section
\* and its assignment, current_condition is the name of the control-set
\* that entered the critical section last (the start-up value before any):
\* always one of the names asked for, also when the requests overlap.
LastWriterWins_C5 ==
    (\A t \in Threads : pc[t] # "set_update")
        => current_condition = (IF hist.entered = "" THEN "normal" ELSE hist.entered)

\* C5 witness: two control-sets with different names overlapped, both have
\* answered, and the one that entered last decides the value.
Witness_C5 ==
    \E t, u \in Threads :
        /\ t # u /\ Done(t) /\ Done(u)
        /\ req[t].endpoint = "control_set" /\ req[u].endpoint = "control_set"
        /\ resp[t].status = 200 /\ resp[u].status = 200
        /\ req[t].condition # req[u].condition
        /\ trace[t].raced /\ trace[u].raced
        /\ hist.entered = req[t].condition
        /\ current_condition = req[t].condition

\* C6: a control-get-current answers the name of the control-set that
\* committed last before its read: the one last committed when the request
\* began, or one that committed after that and before the read.
ReadSeesLastCommit_C6 ==
    \A t \in Threads :
        (Done(t) /\ req[t].endpoint = "control_get")
            => resp[t].status = 200 /\ resp[t].name = obs[t].expect

\* C6 witness: the request began after a control-set had answered, another
\* control-set committed before its read, and it answers the later name.
Witness_C6 ==
    \E t \in Threads :
        /\ Done(t) /\ req[t].endpoint = "control_get"
        /\ obs[t].fresh /\ obs[t].intervened
        /\ obs[t].start = "poor" /\ obs[t].expect = "terrible"
        /\ resp[t].name = "terrible"

\* C7: a request in its simulated delay does not hold state_lock.
NoLockWhileSleeping_C7 ==
    \A t \in Threads : pc[t] = "ane_sleep" => state_lock # t

\* C7 witness: while one request sleeps, a control-set is inside the
\* critical section.
Witness_C7 ==
    \E t, u \in Threads :
        /\ pc[t] = "ane_sleep" /\ loc[t].delay > 0
        /\ pc[u] = "set_update" /\ state_lock = u

\* C8: a request to root, control-set or control-get-current never takes a
\* condition snapshot, never draws for packet loss and never sleeps; it
\* ends with 200, or with 400 when it is a control-set with an unknown name.
ControlNeverImpaired_C8 ==
    \A t \in Threads :
        req[t].endpoint \in ControlEndpoints
            => /\ trace[t].snapshots = 0
               /\ ~trace[t].drew
               /\ ~trace[t].slept
               /\ Done(t) =>
                    \/ resp[t].status = 200
                    \/ /\ resp[t].status = 400
                       /\ req[t].endpoint = "control_set"
                       /\ req[t].condition \notin {"normal", "poor", "terrible"}

\* C8 witness: under terrible a manifest request was lost while a
\* control-get-current answered 200.
Witness_C8 ==
    \E t, u \in Threads :
        /\ Done(t) /\ req[t].endpoint = "control_get" /\ resp[t].status = 200
        /\ resp[t].name = "terrible"
        /\ Done(u) /\ req[u].endpoint = "manifest" /\ resp[u].status = 504

LossStatusByEndpoint_C10 ==
    \A t \in Threads :
        Done(t) =>
            /\ trace[t].lost =>
                 resp[t].status = (IF req[t].endpoint = "manifest" THEN 504 ELSE 503)
            /\ req[t].endpoint = "manifest" => resp[t].status # 503
            /\ req[t].endpoint \in {"segment", "health", "metrics"}
                 => resp[t].status # 504

\* C10 witness: a lost manifest request next to a lost health request.
Witness_C10 ==
    \E t, u \in Threads :
        /\ Done(t) /\ req[t].endpoint = "manifest" /\ trace[t].lost
        /\ resp[t].status = 504
        /\ Done(u) /\ req[u].endpoint = "health" /\ trace[u].lost
        /\ resp[u].status = 503

\* C11: a request whose condition snapshot is normal is never lost: it never
\* ends with 503 or 504, whatever control-set commits after the snapshot.
NormalNeverFails_C11 ==
    \A t \in Threads :
        trace[t].snapshot = "normal"
            => ~trace[t].lost /\ resp[t].status \notin {503, 504}

\* C11 witness: a health request that snapshotted normal and has drawn
\* answered 200 although terrible was committed after its snapshot.
Witness_C11 ==
    \E t \in Threads :
        /\ Done(t) /\ req[t].endpoint = "health"
        /\ trace[t].snapshot = "normal" /\ trace[t].drew
        /\ resp[t].status = 200
        /\ current_condition = "terrible"

\* C12: current_condition changes only in the assignment step of a
\* control-set request whose name is a key, and then to that name; every
\* step of any other request, and of a rejected control-set, leaves it.
OnlyControlSetChanges_C12 ==
    [][current_condition' # current_condition
          => \E t \in Threads :
                /\ req[t].endpoint = "control_set"
                /\ req[t].condition \in {"normal", "poor", "terrible"}
                /\ pc[t] = "set_update" /\ pc'[t] = "set_unlock"
                /\ current_condition' = req[t].condition]_vars

\* C12 witness: with poor committed, a health request was lost, a segment
\* request and a control-set were rejected, and the condition is still poor.
Witness_C12 ==
    \E t, u \in Threads :
        /\ Done(t) /\ req[t].endpoint = "health" /\ trace[t].lost
        /\ trace[t].snapshot = "poor"
        /\ Done(u) /\ req[u].endpoint = "control_set"
        /\ req[u].condition = "offline" /\ resp[u].status = 400
        /\ hist.committed = "poor" /\ current_condition = "poor"

\* C13: as long as no control-set has committed, current_condition is
\* normal, and a control-get-current answers 200 with normal and the
\* settings of normal.
StartsNormal_C13 ==
    hist.committed = ""
        => /\ current_condition = "normal"
           /\ \A t \in Threads :
                (Done(t) /\ req[t].endpoint = "control_get")
                    => /\ resp[t].status = 200
                       /\ resp[t].name = "normal"
                       /\ resp[t].settings.packet_loss = 0
                       /\ resp[t].settings.latency_ms = 10
                       /\ resp[t].settings.jitter_ms = 5

\* C13 witness: the first control-get-current has answered normal before
\* any control-set was taken.
Witness_C13 ==
    \E t \in Threads :
        /\ Done(t) /\ req[t].endpoint = "control_get"
        /\ hist.entered = "" /\ hist.committed = ""
        /\ \A u \in Threads : req[u].endpoint # "control_set"
        /\ resp[t].name = "normal" /\ resp[t].settings.latency_ms = 10

\* C14: for every status of the test's list, normal, poor and offline, the
\* control-set with that name succeeds for the validator (200 or 204) and
\* is committed, so that control-get-current reports it.
TestStatusesSettable_C14 ==
    \A t \in Threads :
        (Done(t) /\ req[t].endpoint = "control_set" /\ req[t].condition \in statuses)
            => /\ SetSucceeded(resp[t].status)
               /\ resp[t].name = req[t].condition

\* C15: the sequence check normal, set poor, GET /health of the test ends
\* with a /health response that passes validate_streaming_performance("poor"):
\* status 200, current_condition = poor and settings.latency_ms = 200 in
\* the body.
HealthPerformancePoor_C15 ==
    (Done(TestClient) /\ req[TestClient].endpoint = "health")
        => validate_streaming_performance(resp[TestClient], "poor")

\* C16: for every name with an expected latency in get_latency_expected,
\* the settings.latency_ms the server reports for it is that latency.
ExpectedLatency_C16 ==
    \A t \in Threads :
        (/\ Done(t) /\ req[t].endpoint \in {"control_get", "control_set"}
         /\ resp[t].status = 200
         /\ get_latency_expected(resp[t].name) # None)
            => resp[t].settings.latency_ms = get_latency_expected(resp[t].name)

\* C17: a request inside apply_network_effects has acquired the lock once
\* and taken one snapshot; the condition it decides on is the table entry
\* of the name it snapshotted, whatever current_condition has become: it is
\* lost only if that entry has packet loss, and its delay is within
\* latency_ms - jitter_ms .. latency_ms + jitter_ms of that entry.
OneSnapshotDecides_C17 ==
    \A t \in Threads :
        /\ trace[t].snapshots <= 1
        /\ pc[t] \in {"ane_unlock", "ane_loss", "ane_sleep"}
            => /\ trace[t].acquired = 1
               /\ trace[t].snapshots = 1
               /\ loc[t].condition = NETWORK_CONDITIONS[trace[t].snapshot]
        /\ trace[t].lost
            => NETWORK_CONDITIONS[trace[t].snapshot].packet_loss > 0
        /\ pc[t] = "ane_sleep"
            => LET c == NETWORK_CONDITIONS[trace[t].snapshot] IN
               /\ loc[t].delay >= c.latency_ms - c.jitter_ms
               /\ loc[t].delay <= c.latency_ms + c.jitter_ms

\* C17 witness: a request that snapshotted normal sleeps its 15 ms while
\* terrible has been committed and answered since.
Witness_C17 ==
    \E t, u \in Threads :
        /\ pc[t] = "ane_sleep" /\ trace[t].snapshot = "normal"
        /\ loc[t].delay = 15
        /\ Done(u) /\ req[u].endpoint = "control_set"
        /\ req[u].condition = "terrible" /\ resp[u].status = 200
        /\ current_condition = "terrible"

\* C18: in every metrics response the name in network.current_condition is
\* the key of the table entry in network.settings.
MetricsNameMatchesSettings_C18 ==
    \A t \in Threads :
        (Done(t) /\ req[t].endpoint = "metrics" /\ resp[t].status = 200)
            => resp[t].settings = NETWORK_CONDITIONS[resp[t].name]

\* C19: in every successful health response network_condition is the name
\* the request snapshotted in apply_network_effects.
HealthNameIsSnapshot_C19 ==
    \A t \in Threads :
        (Done(t) /\ req[t].endpoint = "health" /\ resp[t].status = 200)
            => resp[t].name = trace[t].snapshot

\* C20: in every control-get-current response the settings are the table
\* entry of the returned name, also when a control-set commits around it.
CurrentNameMatchesSettings_C20 ==
    \A t \in Threads :
        (Done(t) /\ req[t].endpoint = "control_get")
            => /\ resp[t].status = 200
               /\ resp[t].name \in {"normal", "poor", "terrible"}
               /\ resp[t].settings = NETWORK_CONDITIONS[resp[t].name]

\* C20 witness: the response names poor with the settings of poor although
\* a control-set committed before the read and another one after it.
Witness_C20 ==
    \E t \in Threads :
        /\ Done(t) /\ req[t].endpoint = "control_get"
        /\ obs[t].intervened
        /\ resp[t].name = "poor" /\ resp[t].settings.latency_ms = 200
        /\ current_condition = "terrible"

\* Labels of the handler bodies that follow apply_network_effects.
ImpairedBodies ==
    {"manifest_ok", "segment_ok", "health_data",
     "metrics_lock", "metrics_settings", "metrics_unlock", "metrics_data"}

\* C21: in an impaired handler a failure reported by apply_network_effects
\* is returned in the very next step with its status and message, without
\* a delay and without payload; the body that builds the 200 payload runs
\* only after a pass that slept, the sleep is entered once per request,
\* and no request both sleeps and fails.
FailAtOnceOrDelayOnce_C21 ==
    /\ [](\A t \in Threads :
            /\ ~(trace[t].slept /\ trace[t].lost)
            /\ trace[t].lost
                => /\ Done(t)
                   /\ AppliesEffects(req[t].endpoint)
                   /\ resp[t].status = LossStatus(EndpointType(req[t].endpoint))
                   /\ resp[t].message = LossMessage(EndpointType(req[t].endpoint))
                   /\ resp[t].name = ""
                   /\ resp[t].settings = NoSettings
            /\ (pc[t] \in ImpairedBodies
                \/ (Done(t) /\ AppliesEffects(req[t].endpoint)
                    /\ resp[t].status = 200))
                => trace[t].drew /\ trace[t].slept /\ ~trace[t].lost)
    /\ [][\A t \in Threads :
            /\ (pc[t] # "ane_sleep" /\ pc'[t] = "ane_sleep")
                => pc[t] = "ane_loss" /\ ~trace[t].slept /\ trace'[t].slept
            /\ (pc[t] = "ane_loss" /\ pc'[t] \in ImpairedBodies) => FALSE
            /\ (pc[t] = "ane_sleep" /\ pc'[t] # "ane_sleep")
                => pc'[t] = Body(req[t].endpoint) /\ pc'[t] \in ImpairedBodies]_vars

\* C21 witness: a health request answered 503 without having slept next to
\* a metrics request answered 200 after its sleep.
Witness_C21 ==
    \E t, u \in Threads :
        /\ Done(t) /\ req[t].endpoint = "health" /\ trace[t].lost
        /\ resp[t].status = 503 /\ ~trace[t].slept
        /\ Done(u) /\ req[u].endpoint = "metrics" /\ resp[u].status = 200
        /\ trace[u].slept /\ ~trace[u].lost

\* C22: the delay a passing request sleeps is not negative, lies within
\* max(0, latency_ms - jitter_ms) .. latency_ms + jitter_ms of the condition
\* it snapshotted, which is 5..15 ms for normal, 150..250 for poor and
\* 350..650 for terrible; for no table entry and no jitter draw does the
\* clamp to 0 change the delay.
DelayWithinJitter_C22 ==
    LET DelayRange(name) ==
            CASE name = "normal"   -> 5..15
              [] name = "poor"     -> 150..250
              [] name = "terrible" -> 350..650
              [] OTHER             -> {}
    IN
    /\ \A t \in Threads :
        pc[t] = "ane_sleep"
            => LET c == Lookup(trace[t].snapshot) IN
               /\ loc[t].delay >= 0
               /\ loc[t].delay >= Max(0, c.latency_ms - c.jitter_ms)
               /\ loc[t].delay <= c.latency_ms + c.jitter_ms
               /\ loc[t].delay \in DelayRange(trace[t].snapshot)
    /\ \A name \in DOMAIN NETWORK_CONDITIONS :
        LET c == NETWORK_CONDITIONS[name] IN
        /\ c.latency_ms - c.jitter_ms > 0
        /\ \A u \in JitterDraws(c) :
            /\ Delay(c, u) = c.latency_ms + u
            /\ Delay(c, u) \in DelayRange(name)

\* C22 witness: requests sleeping the two ends of the range of terrible.
Witness_C22 ==
    \E t, u \in Threads :
        /\ pc[t] = "ane_sleep" /\ trace[t].snapshot = "terrible"
        /\ loc[t].delay = 350
        /\ pc[u] = "ane_sleep" /\ trace[u].snapshot = "terrible"
        /\ loc[u].delay = 650

\* Thread t is serving a request that has not been answered yet.
InFlight(t) == pc[t] \notin {"idle", "done"}

\* Labels inside a "with state_lock:" block.
CriticalSection ==
    {"ane_snapshot", "ane_unlock", "metrics_settings", "metrics_unlock",
     "set_update", "set_unlock", "cur_read", "cur_unlock"}

TableFixed_C24 ==
    /\ [](/\ DOMAIN NETWORK_CONDITIONS = {"normal", "poor", "terrible"}
          /\ LET n == NETWORK_CONDITIONS["normal"]
                 p == NETWORK_CONDITIONS["poor"]
                 x == NETWORK_CONDITIONS["terrible"]
             IN /\ n.packet_loss = 0  /\ n.latency_ms = 10  /\ n.jitter_ms = 5
                /\ p.packet_loss = 15 /\ p.latency_ms = 200 /\ p.jitter_ms = 50
                /\ x.packet_loss = 15 /\ x.latency_ms = 500 /\ x.jitter_ms = 150
          /\ \A name \in DOMAIN NETWORK_CONDITIONS :
                /\ NETWORK_CONDITIONS[name].packet_loss >= 0
                /\ NETWORK_CONDITIONS[name].latency_ms >= 0
                /\ NETWORK_CONDITIONS[name].jitter_ms >= 0
          /\ \A t \in Threads :
                \A d \in {loc[t].condition, loc[t].settings, resp[t].settings} :
                    \/ d = NoSettings
                    \/ \E name \in DOMAIN NETWORK_CONDITIONS :
                          d = NETWORK_CONDITIONS[name])
    /\ [][NETWORK_CONDITIONS' = NETWORK_CONDITIONS]_vars

\* C24 witness: a metrics response has exposed the settings of poor and a
\* control-set has answered with the settings of terrible.
Witness_C24 ==
    \E t, u \in Threads :
        /\ Done(t) /\ req[t].endpoint = "metrics" /\ resp[t].status = 200
        /\ resp[t].settings = NETWORK_CONDITIONS["poor"]
        /\ Done(u) /\ req[u].endpoint = "control_set" /\ resp[u].status = 200
        /\ resp[u].settings = NETWORK_CONDITIONS["terrible"]

====
